---- MODULE Spec2Model ----
(***************************************************************************)
(* Model of the observer pattern (observer_pattern/main.py) and of the     *)
(* decorator chain (decorator_pattern/main.py) of the MES examples.        *)
(*                                                                         *)
(* Registry: a Machine owns the list _observers and the field _status.     *)
(* set_status writes _status and then runs notify_observers, a for loop    *)
(* over the live list.  The loop is modelled one delivery per step, with   *)
(* the list iterator's index kept in a frame; an update callback may       *)
(* print, raise, register or remove an observer (SpecRegistry), or call    *)
(* set_status again, which nests a frame (SpecReentrant).  Outside a       *)
(* broadcast the list is changed through register_observer and            *)
(* remove_observer or through Observer.subscribe and unsubscribe.          *)
(*                                                                         *)
(* Chain: report_production under sync_to_erp under require_permission,    *)
(* one step per wrapper stage (SpecChain).                                 *)
(*                                                                         *)
(* done, lastOp, requested, terminalRuns and syncRuns are history          *)
(* variables: they record what the program did and steer nothing.          *)
(***************************************************************************)
EXTENDS Naturals, Sequences, FiniteSets

\* ---------------------------------------------------------------- bounds
MaxObservers == 3
MaxDepth == 2
MaxFanout == 2

\* ------------------------------------------------------- registry: values
IDLE == "idle"
RUNNING == "running"
FAULT == "fault"
Status == {IDLE, RUNNING, FAULT}

\* the Observer instances of main(), and an object that is no Observer
Observers == {"engineer", "dashboard"}
NonObservers == {"intruder"}
Objects == Observers \cup NonObservers

\* the Observable of main(), and an object that is no Observable
Observables == {"cnc_machine"}
Targets == Observables \cup {"not_observable"}

VARIABLES
    machine_id,   \* Machine.machine_id
    _observers,   \* Observable._observers: the list of registered observers
    _status,      \* Machine._status
    stack,        \* the active set_status calls, innermost last
    done,         \* history: the outermost set_status call that finished last
    lastOp,       \* history: the last call that registers or removes
    requested     \* history: the argument of the last set_status call

registryVars == <<machine_id, _observers, _status, stack, done, lastOp, requested>>

VARIABLES
    role,          \* require_permission's parameter, kept in the closure
    func,          \* the function under the two decorators
    pc,            \* where the current call of the decorated function stands
    call,          \* the current call: order_id, quantity, kwargs
    denied,        \* the permission wrapper printed its refusal in this call
    inner,         \* sync_to_erp's local `result`
    result,        \* what the call returned
    terminalRuns,  \* history: executions of func in this call
    syncRuns       \* history: ERP synchronisations in this call

chainVars == <<role, func, pc, call, denied, inner, result, terminalRuns, syncRuns>>

vars == <<registryVars, chainVars>>

\* ---------------------------------------------------- registry: functions
IsObserver(o) == o \in Observers

Count(list, o) == Cardinality({k \in 1..Len(list) : list[k] = o})

Contains(list, o) == \E k \in 1..Len(list) : list[k] = o

IndexOf(list, o) ==
    CHOOSE k \in 1..Len(list) :
        list[k] = o /\ \A j \in 1..(k - 1) : list[j] # o

RemoveAt(list, k) == SubSeq(list, 1, k - 1) \o SubSeq(list, k + 1, Len(list))

\* a plausible bug: register_observer that refuses an observer already present
register_observer_dedup(list, observer) ==
    IF ~IsObserver(observer) \/ Contains(list, observer)
    THEN [observers |-> list, ret |-> FALSE]
    ELSE [observers |-> Append(list, observer), ret |-> TRUE]

\* a plausible bug: register_observer without the isinstance test
register_observer_unchecked(list, observer) ==
    [observers |-> Append(list, observer), ret |-> TRUE]

\* Observable.register_observer: the new list and the returned bool
register_observer(list, observer) ==
    IF ~IsObserver(observer)
    THEN [observers |-> list, ret |-> FALSE]
    ELSE [observers |-> Append(list, observer), ret |-> TRUE]

\* a plausible bug: remove_observer reports success whatever it found
remove_observer_blind(list, observer) ==
    IF ~Contains(list, observer)
    THEN [observers |-> list, ret |-> TRUE]
    ELSE [observers |-> RemoveAt(list, IndexOf(list, observer)), ret |-> TRUE]

\* a plausible bug: remove_observer drops every entry of the observer
remove_observer_all(list, observer) ==
    IF ~Contains(list, observer)
    THEN [observers |-> list, ret |-> FALSE]
    ELSE [observers |-> SelectSeq(list, LAMBDA x : x # observer), ret |-> TRUE]

\* Observable.remove_observer: list.remove drops the first occurrence
remove_observer(list, observer) ==
    IF ~Contains(list, observer)
    THEN [observers |-> list, ret |-> FALSE]
    ELSE [observers |-> RemoveAt(list, IndexOf(list, observer)), ret |-> TRUE]

\* Observer.subscribe: the new list, the returned bool, and `via`, what the
\* call of register_observer returned
subscribe(list, observer, observable) ==
    IF observable \notin Observables
    THEN [observers |-> list, ret |-> FALSE, via |-> FALSE]
    ELSE LET r == register_observer(list, observer)
         IN [observers |-> r.observers, ret |-> TRUE, via |-> r.ret]

\* Observer.unsubscribe: the new list, the returned bool, and `via`, what the
\* call of remove_observer returned
unsubscribe(list, observer, observable) ==
    IF observable \notin Observables
    THEN [observers |-> list, ret |-> FALSE, via |-> FALSE]
    ELSE LET r == remove_observer(list, observer)
         IN [observers |-> r.observers, ret |-> TRUE, via |-> r.ret]

\* a plausible bug: the loop visits each distinct observer once
IterHasNextDistinct(list, i) == i < Cardinality({list[k] : k \in 1..Len(list)})

\* the list iterator of "for observer in self._observers": i items consumed
IterHasNext(list, i) == i < Len(list)

\* a plausible bug: the loop walks the list from its end
IterItemReversed(list, i) == list[Len(list) - i]

IterItem(list, i) == list[i + 1]

\* ------------------------------------------------------- registry: frames
NoCall ==
    [arg |-> "none", prev |-> "none", i |-> 0, snap |-> <<>>, log |-> <<>>,
     touched |-> FALSE, outcome |-> "none"]

NoOp ==
    [op |-> "none", arg |-> "none", before |-> <<>>, ret |-> FALSE, via |-> FALSE,
     valid |-> TRUE, again |-> FALSE, depth |-> 0]

\* a plausible bug: a call whose status is already current is not broadcast
NewFrameSuppressed(status) ==
    [arg |-> status, prev |-> _status,
     i |-> IF status = _status THEN Len(_observers) ELSE 0,
     snap |-> _observers, log |-> <<>>, touched |-> FALSE, outcome |-> "running"]

\* the call frame of set_status(status): notify_observers starts a fresh iterator
NewFrame(status) ==
    [arg |-> status, prev |-> _status, i |-> 0, snap |-> _observers,
     log |-> <<>>, touched |-> FALSE, outcome |-> "running"]

\* a plausible bug: notify_observers runs before the status is written
set_status_late(base, status) ==
    /\ _status' = _status
    /\ requested' = status
    /\ stack' = Append(base, NewFrame(status))

\* Machine.set_status, called with `base` the calls already active: the write
\* of _status (line 75), then the call of notify_observers (line 76)
set_status(base, status) ==
    /\ _status' = status
    /\ requested' = status
    /\ stack' = Append(base, NewFrame(status))

Top == stack[Len(stack)]

Delivering == stack # <<>> /\ IterHasNext(_observers, Top.i)

\* observer.update(self.machine_id, self._status) for the iterator's next item
Delivery ==
    [o |-> IterItem(_observers, Top.i), id |-> machine_id, st |-> _status,
     req |-> requested]

AdvancedTop == [Top EXCEPT !.i = @ + 1, !.log = Append(@, Delivery)]

Advanced == [stack EXCEPT ![Len(stack)] = AdvancedTop]

Touch(frames, changed) ==
    [k \in DOMAIN frames |-> [frames[k] EXCEPT !.touched = @ \/ changed]]

\* the list after the call is _observers itself: only these calls change it.
\* again: the call before it was the same call and returned True;
\* depth: the set_status calls active when it was made
CallRecord(op, o, ret, via, valid) ==
    [op |-> op, arg |-> o, before |-> _observers, ret |-> ret, via |-> via,
     valid |-> valid,
     again |-> (lastOp.op = op /\ lastOp.arg = o /\ lastOp.ret),
     depth |-> Len(stack)]

OpRecord(op, o, r) == CallRecord(op, o, r.ret, r.ret, TRUE)

\* -------------------------------------------------------- registry: actions
\* a plausible bug: register_observer tells the newcomer the current status
RegisterAnnounces(o) ==
    /\ stack = <<>>
    /\ Len(_observers) < MaxObservers
    /\ LET r == register_observer(_observers, o)
       IN /\ _observers' = r.observers
          /\ lastOp' = OpRecord("register", o, r)
    /\ done' = NoCall
    /\ stack' = <<[NewFrame(_status) EXCEPT !.snap = _observers']>>
    /\ UNCHANGED <<machine_id, _status, requested, chainVars>>

\* cnc_machine.register_observer(o), called from outside any broadcast
Register(o) ==
    /\ stack = <<>>
    /\ Len(_observers) < MaxObservers
    /\ LET r == register_observer(_observers, o)
       IN /\ _observers' = r.observers
          /\ lastOp' = OpRecord("register", o, r)
    /\ done' = NoCall
    /\ UNCHANGED <<machine_id, _status, stack, requested, chainVars>>

\* cnc_machine.remove_observer(o), called from outside any broadcast
Remove(o) ==
    /\ stack = <<>>
    /\ LET r == remove_observer(_observers, o)
       IN /\ _observers' = r.observers
          /\ lastOp' = OpRecord("remove", o, r)
    /\ done' = NoCall
    /\ UNCHANGED <<machine_id, _status, stack, requested, chainVars>>

\* o.subscribe(t), called from outside any broadcast
Subscribe(o, t) ==
    /\ stack = <<>>
    /\ Len(_observers) < MaxObservers
    /\ LET r == subscribe(_observers, o, t)
       IN /\ _observers' = r.observers
          /\ lastOp' = CallRecord("subscribe", o, r.ret, r.via, t \in Observables)
    /\ done' = NoCall
    /\ UNCHANGED <<machine_id, _status, stack, requested, chainVars>>

\* o.unsubscribe(t), called from outside any broadcast
Unsubscribe(o, t) ==
    /\ stack = <<>>
    /\ LET r == unsubscribe(_observers, o, t)
       IN /\ _observers' = r.observers
          /\ lastOp' = CallRecord("unsubscribe", o, r.ret, r.via, t \in Observables)
    /\ done' = NoCall
    /\ UNCHANGED <<machine_id, _status, stack, requested, chainVars>>

\* cnc_machine.set_status(s), called from outside any broadcast
SetStatus(s) ==
    /\ stack = <<>>
    /\ set_status(stack, s)
    /\ done' = NoCall
    /\ UNCHANGED <<machine_id, _observers, lastOp, chainVars>>

\* one pass of the for loop; update only prints (MaintenanceEngineer,
\* ProductionDashboard)
UpdatePrints ==
    /\ Delivering
    /\ stack' = Advanced
    /\ UNCHANGED <<machine_id, _observers, _status, done, lastOp, requested, chainVars>>

\* one pass of the for loop; update raises: nothing catches the exception, so
\* notify_observers and every active set_status are left through it
UpdateRaises ==
    /\ Delivering
    /\ stack' = <<>>
    /\ done' = [Advanced[1] EXCEPT !.outcome = "raised"]
    /\ UNCHANGED <<machine_id, _observers, _status, lastOp, requested, chainVars>>

\* one pass of the for loop; update calls register_observer(x) on the machine
UpdateRegisters(x) ==
    /\ Delivering
    /\ Len(_observers) < MaxObservers
    /\ LET r == register_observer(_observers, x)
       IN /\ _observers' = r.observers
          /\ lastOp' = OpRecord("register", x, r)
          /\ stack' = Touch(Advanced, r.observers # _observers)
    /\ UNCHANGED <<machine_id, _status, done, requested, chainVars>>

\* one pass of the for loop; update calls remove_observer(x) on the machine
UpdateRemoves(x) ==
    /\ Delivering
    /\ LET r == remove_observer(_observers, x)
       IN /\ _observers' = r.observers
          /\ lastOp' = OpRecord("remove", x, r)
          /\ stack' = Touch(Advanced, r.observers # _observers)
    /\ UNCHANGED <<machine_id, _status, done, requested, chainVars>>

\* one pass of the for loop; update calls set_status(s) on the machine
UpdateSetsStatus(s) ==
    /\ Delivering
    /\ Len(stack) < MaxDepth
    /\ Len(_observers) <= MaxFanout
    /\ set_status(Advanced, s)
    /\ UNCHANGED <<machine_id, _observers, done, lastOp, chainVars>>

\* the iterator is exhausted: notify_observers and set_status return
Return ==
    /\ stack # <<>>
    /\ ~IterHasNext(_observers, Top.i)
    /\ stack' = SubSeq(stack, 1, Len(stack) - 1)
    /\ done' = IF Len(stack) = 1 THEN [Top EXCEPT !.outcome = "returned"] ELSE done
    /\ UNCHANGED <<machine_id, _observers, _status, lastOp, requested, chainVars>>

InitRegistry ==
    /\ machine_id = "CNC-001"
    /\ _observers = <<>>
    /\ _status = IDLE
    /\ stack = <<>>
    /\ done = NoCall
    /\ lastOp = NoOp
    /\ requested = IDLE

NextRegistry ==
    \/ \E o \in Objects : Register(o)
    \/ \E o \in Objects : Remove(o)
    \/ \E o \in Observers, t \in Targets : Subscribe(o, t)
    \/ \E o \in Observers, t \in Targets : Unsubscribe(o, t)
    \/ \E s \in Status : SetStatus(s)
    \/ UpdatePrints
    \/ UpdateRaises
    \/ \E x \in Observers : UpdateRegisters(x)
    \/ \E x \in Observers : UpdateRemoves(x)
    \/ Return

NextReentrant ==
    \/ \E o \in Objects : Register(o)
    \/ \E o \in Objects : Remove(o)
    \/ \E s \in Status : SetStatus(s)
    \/ UpdatePrints
    \/ \E s \in Status : UpdateSetsStatus(s)
    \/ Return


\* --------------------------------------------------------- chain: values
GUEST == 1
OPERATOR == 2
ADMIN == 3
UserRole == {GUEST, OPERATOR, ADMIN}

OrderIds == {"ORD-001", "ORD-002"}
Quantities == {100, 500}

\* report_production, and two stand-ins for a func that returns nothing
Funcs == {"report_production", "returns_none", "returns_empty"}

NoneValue == [type |-> "NoneType", order_id |-> "", status |-> ""]
EmptyDict == [type |-> "dict", order_id |-> "", status |-> ""]
Completed(order_id) == [type |-> "dict", order_id |-> order_id, status |-> "completed"]

\* the keyword arguments of a call, a dict as its set of items:
\* user_role=<role>, or no user_role keyword (the role left out or passed
\* positionally)
NoKwargs == {}
Kwargs == {{<<"user_role", r>>} : r \in UserRole} \cup {NoKwargs}

NoInvocation == [order_id |-> "", quantity |-> 0, kwargs |-> NoKwargs]

\* -------------------------------------------------------- chain: functions
\* kwargs.get("user_role", "Guest")
HasKey(kwargs, key) == \E item \in kwargs : item[1] = key

GetUserRole(kwargs) ==
    IF HasKey(kwargs, "user_role")
    THEN [type |-> "UserRole", text |-> "",
          value |-> (CHOOSE item \in kwargs : item[1] = "user_role")[2]]
    ELSE [type |-> "str", text |-> "Guest", value |-> 0]

\* `user_role <= role` is defined between two UserRole members; between the
\* str "Guest" and a UserRole it raises TypeError
Comparable(user_role) == user_role.type = "UserRole"

\* a plausible bug: the role that equals the required one is let through
DeniesBelow(user_role, required) == user_role.value < required

\* the test of require_permission's wrapper: user_role <= role
Denies(user_role, required) == user_role.value <= required

\* the body of the decorated function, by what it returns
TerminalResult(f, order_id) ==
    CASE f = "report_production" -> Completed(order_id)
      [] f = "returns_none" -> NoneValue
      [] f = "returns_empty" -> EmptyDict

\* a plausible bug: the test is `result is not None`, so {} counts as a result
TruthyNotNone(value) == value # NoneValue

\* Python's truth value of a result: None and {} are false
Truthy(value) == value.type = "dict" /\ value # EmptyDict

\* ---------------------------------------------------------- chain: actions
\* require_permission(role=r) applied to sync_to_erp(f): the chain is built anew
Decorate(r, f) ==
    /\ pc \in {"ready", "returned", "raised"}
    /\ role' = r
    /\ func' = f
    /\ pc' = "ready"
    /\ call' = NoInvocation
    /\ denied' = FALSE
    /\ inner' = NoneValue
    /\ result' = NoneValue
    /\ terminalRuns' = 0
    /\ syncRuns' = 0
    /\ UNCHANGED registryVars

\* a call of the decorated function enters require_permission's wrapper
Invoke(order_id, quantity, kwargs) ==
    /\ pc \in {"ready", "returned", "raised"}
    /\ pc' = "permission"
    /\ call' = [order_id |-> order_id, quantity |-> quantity, kwargs |-> kwargs]
    /\ denied' = FALSE
    /\ inner' = NoneValue
    /\ result' = NoneValue
    /\ terminalRuns' = 0
    /\ syncRuns' = 0
    /\ UNCHANGED <<role, func, registryVars>>

\* a plausible bug: the refusal is printed but the wrapper does not return
PermissionFallsThrough ==
    /\ pc = "permission"
    /\ Comparable(GetUserRole(call.kwargs))
    /\ denied' = Denies(GetUserRole(call.kwargs), role)
    /\ pc' = "sync"
    /\ UNCHANGED <<role, func, call, inner, result, terminalRuns, syncRuns>>
    /\ UNCHANGED registryVars

\* require_permission's wrapper: refuse and return None, or call func
Permission ==
    /\ pc = "permission"
    /\ Comparable(GetUserRole(call.kwargs))
    /\ IF Denies(GetUserRole(call.kwargs), role)
       THEN /\ denied' = TRUE
            /\ result' = NoneValue
            /\ pc' = "returned"
       ELSE /\ pc' = "sync"
            /\ UNCHANGED <<denied, result>>
    /\ UNCHANGED <<role, func, call, inner, terminalRuns, syncRuns, registryVars>>

\* require_permission's wrapper: the comparison itself raises TypeError
PermissionRaises ==
    /\ pc = "permission"
    /\ ~Comparable(GetUserRole(call.kwargs))
    /\ pc' = "raised"
    /\ UNCHANGED <<role, func, call, denied, inner, result, terminalRuns, syncRuns>>
    /\ UNCHANGED registryVars

\* a plausible bug: the synchronisation is sent before func has run
SyncBeforeFunc ==
    /\ pc = "sync"
    /\ terminalRuns' = terminalRuns + 1
    /\ syncRuns' = syncRuns + 1
    /\ inner' = TerminalResult(func, call.order_id)
    /\ pc' = "synced"
    /\ UNCHANGED <<role, func, call, denied, result, registryVars>>

\* sync_to_erp's wrapper: result = func(*args, **kwargs)
SyncCallsFunc ==
    /\ pc = "sync"
    /\ terminalRuns' = terminalRuns + 1
    /\ inner' = TerminalResult(func, call.order_id)
    /\ pc' = "synced"
    /\ UNCHANGED <<role, func, call, denied, result, syncRuns, registryVars>>

\* sync_to_erp's wrapper: if result: synchronise; return result, which
\* require_permission's wrapper returns in turn
SyncReturns ==
    /\ pc = "synced"
    /\ syncRuns' = IF Truthy(inner) THEN syncRuns + 1 ELSE syncRuns
    /\ result' = inner
    /\ pc' = "returned"
    /\ UNCHANGED <<role, func, call, denied, inner, terminalRuns, registryVars>>

InitChain ==
    /\ role = OPERATOR
    /\ func = "report_production"
    /\ pc = "ready"
    /\ call = NoInvocation
    /\ denied = FALSE
    /\ inner = NoneValue
    /\ result = NoneValue
    /\ terminalRuns = 0
    /\ syncRuns = 0

NextChain ==
    \/ \E r \in UserRole, f \in Funcs : Decorate(r, f)
    \/ \E o \in OrderIds, q \in Quantities, k \in Kwargs : Invoke(o, q, k)
    \/ Permission
    \/ PermissionRaises
    \/ SyncCallsFunc
    \/ SyncReturns

\* ------------------------------------------------------------ specifications
Init == InitRegistry /\ InitChain

Next == NextRegistry \/ NextReentrant \/ NextChain

Spec == Init /\ [][Next]_vars

\* the registry with observers whose update prints, raises, registers or removes
SpecRegistry == Init /\ [][NextRegistry]_vars

\* the registry with observers whose update prints or calls set_status again
SpecReentrant == Init /\ [][NextReentrant]_vars

\* the decorated function
SpecChain == Init /\ [][NextChain]_vars

\* ------------------------------------------------------------------ claims
\* the observers that received update in call f, in the order of the calls
Delivered(f) == [k \in 1..Len(f.log) |-> f.log[k].o]

\* the calls the history holds: those active and the outermost one finished last
Frames == {stack[k] : k \in DOMAIN stack} \cup {done}

Undisturbed(f) == f.outcome = "returned" /\ ~f.touched

\* C1: the observers that receive update during a set_status call are exactly
\* those registered when the call was made, also when an update callback
\* registers or removes an observer during the broadcast.
C1_SnapshotDelivery == done.outcome = "returned" => Delivered(done) = done.snap

\* C2: a set_status call in which an update raised still returns normally,
\* and has delivered to every observer registered after the one that raised.
C2_IsolatedDelivery ==
    done.outcome # "none" =>
        /\ done.outcome = "returned"
        /\ ~done.touched => Delivered(done) = done.snap

RegisteredAgain ==
    /\ lastOp.op = "register"
    /\ IsObserver(lastOp.arg)
    /\ Contains(lastOp.before, lastOp.arg)

C4_OneDeliveryPerRegistration ==
    Undisturbed(done) =>
        \A o \in Observers : Count(Delivered(done), o) = Count(done.snap, o)

C4_Witness ==
    /\ Undisturbed(done)
    /\ \E o \in Observers : Count(done.snap, o) = 2 /\ Count(Delivered(done), o) = 2

\* C5: every set_status call that returns, with no update callback changing
\* the list, has delivered one update per registered entry, whether or not
\* the new status equals the status before the call.
C5_NoChangeSuppression == Undisturbed(done) => Delivered(done) = done.snap

C5_Witness ==
    /\ Undisturbed(done)
    /\ done.arg = done.prev
    /\ Len(done.snap) = 2
    /\ Delivered(done) = done.snap

\* C6: a successful registration puts the observer last in the list, and
\* within one set_status call (no update callback changing the list) the
\* updates so far went to the first entries of the list, in list order.
C6_RegistrationOrder ==
    /\ (lastOp.op = "register" /\ lastOp.ret) =>
           _observers = Append(lastOp.before, lastOp.arg)
    /\ \A f \in Frames :
           ~f.touched => Delivered(f) = SubSeq(f.snap, 1, Len(f.log))

C6_Witness ==
    /\ Undisturbed(done)
    /\ done.snap = <<"dashboard", "engineer">>
    /\ Delivered(done) = done.snap

\* C7: every update carries the status that the latest set_status call has
\* written, and a call that has delivered nothing yet has already written it.
C7_CommittedStatus ==
    /\ \A f \in Frames : \A k \in 1..Len(f.log) : f.log[k].st = f.log[k].req
    /\ (stack # <<>> /\ Top.log = <<>>) => _status = Top.arg

C7_Witness ==
    /\ Len(stack) = 1
    /\ Len(Top.log) = 2
    /\ Top.log[1].st # Top.log[2].st

CallerRole == GetUserRole(call.kwargs)

PastPermission == pc \in {"sync", "synced", "returned"}

\* C8: a call that passes a UserRole is let through exactly when that role is
\* strictly greater than the required role.
C8_StrictlyGreaterAllowed ==
    (PastPermission /\ Comparable(CallerRole)) =>
        (~denied <=> CallerRole.value > role)

C8_Witness ==
    /\ pc = "returned"
    /\ denied
    /\ CallerRole.value = OPERATOR
    /\ role = OPERATOR

\* C9: in one call the decorated function body runs at most once, and only
\* in a call the permission test let through.
C9_TerminalAtMostOnce ==
    /\ terminalRuns <= 1
    /\ terminalRuns > 0 =>
           (~denied /\ Comparable(CallerRole) /\ CallerRole.value > role)

C9_Witness == pc = "returned" /\ terminalRuns = 1 /\ ~denied

\* what a call that was let through can return
CompletedResults == {TerminalResult(f, o) : f \in Funcs, o \in OrderIds}

\* C10: a refused call returns a Denied outcome, distinct from everything a
\* call that was let through can return, and runs neither the function body
\* nor the synchronisation.
C10_DeniedOutcome ==
    (pc = "returned" /\ denied) =>
        /\ result.type = "Denied"
        /\ result \notin CompletedResults
        /\ terminalRuns = 0
        /\ syncRuns = 0

\* C11: a call that reaches sync_to_erp's wrapper runs func once, synchronises
\* once if what func returned is neither None nor empty and not at all
\* otherwise, and returns what func returned.
C11_SyncIffResult ==
    /\ pc = "synced" => terminalRuns = 1 /\ syncRuns = 0
    /\ (pc = "returned" /\ ~denied) =>
           /\ terminalRuns = 1
           /\ result = TerminalResult(func, call.order_id)
           /\ syncRuns = IF result \in {NoneValue, EmptyDict} THEN 0 ELSE 1

C11_Witness ==
    /\ pc = "returned"
    /\ ~denied
    /\ result = EmptyDict
    /\ terminalRuns = 1
    /\ syncRuns = 0

\* the chain as the source builds it
ChainOfMain == role = OPERATOR /\ func = "report_production"

CalledAs(r) == Comparable(CallerRole) /\ CallerRole.value = r

C13_NoFault == pc # "raised"

RemovedAbsent == lastOp.op = "remove" /\ ~Contains(lastOp.before, lastOp.arg)

RemovedAgain == lastOp.op = "remove" /\ lastOp.again

C15_RejectsNonObserver ==
    /\ (lastOp.op = "register" /\ ~IsObserver(lastOp.arg)) =>
           lastOp.ret = FALSE /\ _observers = lastOp.before
    /\ \A k \in 1..Len(_observers) : IsObserver(_observers[k])
    /\ \A f \in Frames : \A k \in 1..Len(f.log) : IsObserver(f.log[k].o)

C15_Witness ==
    /\ lastOp.op = "register"
    /\ lastOp.arg \in NonObservers
    /\ lastOp.ret = FALSE
    /\ done.outcome = "returned"
    /\ Len(done.log) = 2

RemovedOk == lastOp.op = "remove" /\ lastOp.ret

\* the calls begun after a registry call made from outside any broadcast
NoLaterUpdate(o) ==
    lastOp.depth = 0 => \A f \in Frames : Count(Delivered(f), o) = 0

C17_OwnStatus ==
    \A f \in Frames : \A k \in 1..Len(f.log) : f.log[k].st = f.arg

LoopPass ==
    /\ stack # <<>>
    /\ stack' # <<>>
    /\ Len(stack') = Len(stack)
    /\ stack'[Len(stack')].i = Top.i + 1

\* C18: a set_status call comes to its end: every pass of the loop of
\* notify_observers leaves fewer entries to visit (the list's length less the
\* iterator's index) than there were, whatever the update callback registers
\* or removes.
C18_LoopProgress ==
    [][LoopPass =>
           Len(_observers') + Top.i < Len(_observers) + stack'[Len(stack')].i]_vars

\* C19: on a valid Observable, subscribe returns what register_observer
\* returned and unsubscribe returns what remove_observer returned.
C19_WrappersAgree ==
    (lastOp.op \in {"subscribe", "unsubscribe"} /\ lastOp.valid) =>
        lastOp.ret = lastOp.via

\* a call that registers or removes, made from outside any broadcast
RegistryCallStep == stack = <<>> /\ (lastOp' # lastOp \/ _observers' # _observers)

\* a step of a set_status call whose update callback leaves the list alone
BroadcastStep == (stack # <<>> \/ stack' # <<>>) /\ lastOp' = lastOp

\* C20: a call that registers or removes changes neither machine_id nor
\* _status and starts no broadcast; set_status, with update callbacks that
\* leave the list alone, changes neither the list nor machine_id, and writes
\* _status once, before the first update.
C20_FrameEffects ==
    [][/\ RegistryCallStep =>
              /\ machine_id' = machine_id
              /\ _status' = _status
              /\ stack' = <<>>
       /\ BroadcastStep =>
              /\ machine_id' = machine_id
              /\ _observers' = _observers
              /\ stack # <<>> => _status' = _status]_vars

C20_Witness ==
    /\ lastOp.op = "register"
    /\ lastOp.ret
    /\ Undisturbed(done)
    /\ done.arg # done.prev
    /\ _status = done.arg
    /\ Len(done.snap) = 2
    /\ _observers = done.snap

====
